---- MODULE Spec2Model ----
(***************************************************************************)
(* Drive Audio Link Extractor (src/app.py): a Streamlit form that turns a  *)
(* Google Drive folder reference into a CSV of the audio files found       *)
(* recursively below that folder.                                          *)
(*                                                                         *)
(* Strings are modelled as sequences of one-character strings, so that     *)
(* lower-casing, suffix tests, regular-expression searches and path        *)
(* concatenation are computed character by character as the code does.     *)
(***************************************************************************)
EXTENDS Integers, Sequences, FiniteSets, TLC

(***************************************************************************)
(* Bounds of the model.                                                    *)
(***************************************************************************)
\* number of fragments a typed folder reference is assembled from
MaxPieces == 3
\* number of Drive items below the top folder of the modelled Drive
MaxItems == 3
\* cap on the number of client constructions explored in one process
MaxBuilds == 2

(***************************************************************************)
(* Characters and strings.                                                 *)
(***************************************************************************)
LowerLetters ==
    <<"a","b","c","d","e","f","g","h","i","j","k","l","m",
      "n","o","p","q","r","s","t","u","v","w","x","y","z">>

UpperLetters ==
    <<"A","B","C","D","E","F","G","H","I","J","K","L","M",
      "N","O","P","Q","R","S","T","U","V","W","X","Y","Z">>

Digits == <<"0","1","2","3","4","5","6","7","8","9">>

Range(s) == { s[i] : i \in 1..Len(s) }

\* the character class [a-zA-Z0-9_-] of the four patterns
IdChars == Range(LowerLetters) \cup Range(UpperLetters) \cup Range(Digits) \cup {"_", "-"}

\* Python's None, distinct from every string (a string holds single characters)
None == <<"None">>

\* str.lower() on one character
LowerChar(c) ==
    IF \E i \in 1..Len(UpperLetters) : UpperLetters[i] = c
    THEN LowerLetters[CHOOSE i \in 1..Len(UpperLetters) : UpperLetters[i] = c]
    ELSE c

\* str.lower()
lower(s) == [i \in 1..Len(s) |-> LowerChar(s[i])]

\* str.endswith(ext)
endswith(s, ext) ==
    /\ Len(ext) <= Len(s)
    /\ SubSeq(s, Len(s) - Len(ext) + 1, Len(s)) = ext

AUDIO_EXTENSIONS ==
    { <<".","m","p","3">>, <<".","w","a","v">>, <<".","m","4","a">>,
      <<".","a","a","c">>, <<".","f","l","a","c">>, <<".","o","g","g">>,
      <<".","o","p","u","s">>, <<".","w","m","a">> }

is_audio_file(name) ==
    LET lowered == lower(name)
    IN  \E ext \in AUDIO_EXTENSIONS : endswith(lowered, ext)

(***************************************************************************)
(* extract_folder_id: re.search of four patterns in order.                 *)
(***************************************************************************)
\* {25,} of the bare-ID pattern
MinBareLen == 25

LitFolders == <<"/","f","o","l","d","e","r","s","/">>
LitDriveFolders == <<"/","d","r","i","v","e">> \o LitFolders
LitIdEq == <<"i","d","=">>

\* the index after the longest run of ID characters that starts at i (greedy +)
RECURSIVE RunEnd(_, _)
RunEnd(s, i) ==
    IF i <= Len(s) /\ s[i] \in IdChars THEN RunEnd(s, i + 1) ELSE i

\* the pattern lit([a-zA-Z0-9_-]+) matches at position i
MatchAt(lit, s, i) ==
    /\ i + Len(lit) <= Len(s)
    /\ SubSeq(s, i, i + Len(lit) - 1) = lit
    /\ s[i + Len(lit)] \in IdChars

\* re.search scans the start positions from the left; 0 when none matches
RECURSIVE SearchFrom(_, _, _)
SearchFrom(lit, s, i) ==
    IF i > Len(s) THEN 0
    ELSE IF MatchAt(lit, s, i) THEN i
    ELSE SearchFrom(lit, s, i + 1)

\* group(1) of re.search(lit([a-zA-Z0-9_-]+), s), or None
SearchPrefixed(lit, s) ==
    LET i == SearchFrom(lit, s, 1)
    IN  IF i = 0 THEN None
        ELSE SubSeq(s, i + Len(lit), RunEnd(s, i + Len(lit)) - 1)

\* group(1) of re.search(^([a-zA-Z0-9_-]{25,})$, s), or None; without
\* re.MULTILINE, $ matches at the end and before a final newline
SearchBare(s) ==
    LET e == RunEnd(s, 1)
    IN  IF /\ e - 1 >= MinBareLen
           /\ \/ e = Len(s) + 1
              \/ e = Len(s) /\ s[e] = "\n"
        THEN SubSeq(s, 1, e - 1)
        ELSE None

\* the first m of ms that is a match
RECURSIVE FirstMatch(_)
FirstMatch(ms) ==
    IF ms = <<>> THEN None
    ELSE IF Head(ms) # None THEN Head(ms)
    ELSE FirstMatch(Tail(ms))

\* a mutant of extract_folder_id: the query-parameter pattern is tried first
extract_folder_id_id_first(url) ==
    FirstMatch(<< SearchPrefixed(LitIdEq, url),
                  SearchPrefixed(LitFolders, url),
                  SearchPrefixed(LitDriveFolders, url),
                  SearchBare(url) >>)

extract_folder_id(url) ==
    FirstMatch(<< SearchPrefixed(LitFolders, url),
                  SearchPrefixed(LitDriveFolders, url),
                  SearchPrefixed(LitIdEq, url),
                  SearchBare(url) >>)

(***************************************************************************)
(* State.                                                                  *)
(***************************************************************************)
VARIABLES
    drive,       \* the Drive content: item number -> [parent, folder, name]
    secrets,     \* whether st.secrets holds gcp_service_account
    cache,       \* st.cache_resource's entry for get_drive_service, or NoService
    builds,      \* number of build("drive", "v3", ...) calls in this process
    pc,          \* position of the script: idle, service, scan, report, ended
    folder_url,  \* the value of the text input
    folder_id,   \* run_extraction's folder_id
    service,     \* run_extraction's service
    secretRead,  \* whether st.secrets was consulted in this request
    stack,       \* the activations of scan_folder_recursive, innermost last
    results,     \* run_extraction's results
    ui,          \* the elements the request has put on the page, in order
    csv,         \* the rows written to csv_buffer, or None
    outcome,     \* how the request ended: none, returned, stopped, exception
    calls,       \* the files().list() requests of the list_children call in
                 \* progress or just ended
    trace        \* the folders listed and the items examined, in order

vars == << drive, secrets, cache, builds, pc, folder_url, folder_id, service,
           secretRead, stack, results, ui, csv, outcome, calls, trace >>

(***************************************************************************)
(* The Drive behind service.files().list().                                *)
(***************************************************************************)
FOLDER_MIME == "application/vnd.google-apps.folder"
FILE_MIME == "application/octet-stream"

\* item 0 is the top folder; the others are numbered 1..MaxItems
ItemNos == 1..MaxItems

\* the Drive identifier of item n
IdOf(n) == <<"F", Digits[n + 1]>>

NameAudioUpper == <<"S",".","M","P","3">>
NameText == <<"n",".","t","x","t">>
NameShort == <<"d">>
NameEmpty == <<>>
Names == { NameAudioUpper, NameText, NameShort, NameEmpty }

\* a file is named like an audio file or not; a folder may be named like an
\* audio file, and may have no name
FileNames == { NameAudioUpper, NameText }
FolderNames == { NameAudioUpper, NameShort, NameEmpty }

\* every item lies in a folder numbered below it: a finite tree under item 0
Drives ==
    { d \in [ItemNos -> [parent : 0..(MaxItems - 1), folder : BOOLEAN, name : Names]] :
        \A n \in ItemNos :
            /\ d[n].name \in (IF d[n].folder THEN FolderNames ELSE FileNames)
            /\ d[n].parent < n
            /\ d[n].parent # 0 => d[d[n].parent].folder }

\* the DriveItem the API serves for item n
DriveItem(n) ==
    [ id |-> IdOf(n),
      name |-> drive[n].name,
      mimeType |-> IF drive[n].folder THEN FOLDER_MIME ELSE FILE_MIME,
      createdTime |-> "2024-01-01T00:00:00.000Z",
      webViewLink |-> <<"webViewLink", n>> ]

\* the items whose parent is item p, in the order the API serves them
RECURSIVE ChildNosFrom(_, _)
ChildNosFrom(p, n) ==
    IF n > MaxItems THEN <<>>
    ELSE (IF drive[n].parent = p THEN <<n>> ELSE <<>>) \o ChildNosFrom(p, n + 1)

\* the non-trashed children of the folder with identifier fid
Children(fid) ==
    IF \E p \in 0..MaxItems : IdOf(p) = fid
    THEN LET p == CHOOSE p \in 0..MaxItems : IdOf(p) = fid
             nos == ChildNosFrom(p, 1)
         IN  [k \in 1..Len(nos) |-> DriveItem(nos[k])]
    ELSE <<>>

\* the absent nextPageToken / pageToken=None
NoToken == <<>>

pageSize == 1000

Min(a, b) == IF a < b THEN a ELSE b

\* the responses the API may give to one files().list() request: the next
\* 1..pageSize children, with a continuation token unless they are the last
\* (the API may also announce one more page that then turns out empty)
ListResponses(fid, pageToken) ==
    LET ch == Children(fid)
        o == IF pageToken = NoToken THEN 0 ELSE pageToken[1]
    IN  IF o >= Len(ch)
        THEN { [files |-> <<>>, nextPageToken |-> NoToken] }
        ELSE UNION { { [files |-> SubSeq(ch, o + 1, o + n), nextPageToken |-> t] :
                         t \in IF o + n < Len(ch) THEN { <<o + n>> }
                                                  ELSE { NoToken, <<o + n>> } } :
                     n \in 1..Min(Len(ch) - o, pageSize) }

(***************************************************************************)
(* The conditions and updates the handlers are made of.                    *)
(***************************************************************************)
NoService == <<"NoService">>

\* a mutant of InvalidFolderId: the check of folder_id is left out
InvalidFolderIdNever(fid) == FALSE

\* `if not folder_id`: None and the empty string are falsy
InvalidFolderId(fid) == fid = None \/ fid = <<>>

\* a mutant of SecretMissing: the secret is taken to be there
SecretNeverMissing == FALSE

\* `"gcp_service_account" not in st.secrets`
SecretMissing == ~secrets

\* a mutant of CacheHit: get_drive_service without its cache decorator
CacheNeverHit == FALSE

\* st.cache_resource: a stored return value is handed out without a call
CacheHit == cache # NoService

\* a mutant of Extend: each page replaces the items gathered so far
ExtendOverwrite(all_items, files) == files

\* all_items.extend(resp.get("files", []))
Extend(all_items, files) == all_items \o files

\* `if not page_token: break`
LastPage(page_token) == page_token = NoToken

\* new_path = f"{path}/{name}" if path else name
NewPath(path, name) == IF path # <<>> THEN path \o <<"/">> \o name ELSE name

\* the row appended for an audio file
AudioRow(item, path) ==
    << item.name,
       path,
       item.webViewLink,
       <<"https://drive.google.com/file/d/", item.id, "/view?usp=sharing">>,
       <<"https://drive.google.com/uc?id=", item.id>>,
       item.createdTime,
       item.id >>

CSV_HEADER ==
    << "File Name", "Folder Path", "View Link", "Share Link",
       "Direct Download Link", "Uploaded Date", "File ID" >>

\* a fresh activation of scan_folder_recursive(service, fid, path), about to
\* call list_children
Frame(fid, path) ==
    [ folder_id |-> fid, path |-> path, phase |-> "list",
      page_token |-> NoToken, all_items |-> <<>>, i |-> 1, results |-> <<>> ]

Top == stack[Len(stack)]

SetTop(f) == [stack EXCEPT ![Len(stack)] = f]

(***************************************************************************)
(* Initial state: the script has rendered the form, nothing was clicked.   *)
(***************************************************************************)
InitRequest ==
    /\ pc = "idle"
    /\ folder_id = None
    /\ service = NoService
    /\ secretRead = FALSE
    /\ stack = <<>>
    /\ results = <<>>
    /\ ui = <<>>
    /\ csv = None
    /\ outcome = "none"
    /\ calls = <<>>
    /\ trace = <<>>

\* the folder references typed into the form: /folders/<top folder>?id=<item 1>,
\* ?id=<item 1>, and a short bare ID
MainUrls ==
    { LitFolders \o IdOf(0) \o <<"?">> \o LitIdEq \o IdOf(1),
      <<"?">> \o LitIdEq \o IdOf(1),
      IdOf(0) }

Init ==
    /\ drive \in Drives
    /\ folder_url \in MainUrls
    /\ secrets \in BOOLEAN
    /\ cache = NoService
    /\ builds = 0
    /\ InitRequest

(***************************************************************************)
(* The script reruns with the button not pressed (the text input was       *)
(* edited, the deployment's secrets were changed) and renders the form     *)
(* alone: what the previous run had put on the page is gone.               *)
(***************************************************************************)
RenderForm ==
    /\ pc' = "idle"
    /\ folder_id' = None
    /\ service' = NoService
    /\ secretRead' = FALSE
    /\ stack' = <<>>
    /\ results' = <<>>
    /\ ui' = <<>>
    /\ csv' = None
    /\ outcome' = "none"
    /\ calls' = <<>>
    /\ trace' = <<>>

TypeUrl(url) ==
    /\ pc \in {"idle", "ended"}
    /\ url # folder_url
    /\ folder_url' = url
    /\ RenderForm
    /\ UNCHANGED << drive, secrets, cache, builds >>

SetSecret ==
    /\ pc \in {"idle", "ended"}
    /\ secrets' = ~secrets
    /\ RenderForm
    /\ UNCHANGED << drive, cache, builds, folder_url >>

(***************************************************************************)
(* run_extraction, lines 126-129: the button is pressed.  Requests are     *)
(* explored while the process has built fewer than MaxBuilds clients.      *)
(***************************************************************************)
StartExtraction ==
    /\ pc \in {"idle", "ended"}
    /\ builds < MaxBuilds
    /\ folder_id' = extract_folder_id(folder_url)
    /\ service' = NoService
    /\ secretRead' = FALSE
    /\ stack' = <<>>
    /\ results' = <<>>
    /\ csv' = None
    /\ calls' = <<>>
    /\ trace' = <<>>
    /\ IF InvalidFolderId(folder_id')
       THEN /\ ui' = << <<"error", "Invalid folder URL / ID">> >>
            /\ outcome' = "returned"
            /\ pc' = "ended"
       ELSE /\ ui' = <<>>
            /\ outcome' = "none"
            /\ pc' = "service"
    /\ UNCHANGED << drive, secrets, cache, builds, folder_url >>

(***************************************************************************)
(* get_drive_service under st.cache_resource, then the first activation    *)
(* of scan_folder_recursive.                                               *)
(***************************************************************************)
GetDriveService ==
    /\ pc = "service"
    /\ IF CacheHit
       THEN /\ service' = cache
            /\ stack' = << Frame(folder_id, <<>>) >>
            /\ pc' = "scan"
            /\ UNCHANGED << cache, builds, secretRead, ui, outcome >>
       ELSE /\ secretRead' = TRUE
            /\ IF SecretMissing
               THEN /\ ui' = Append(ui, <<"error", "Missing Streamlit secret: gcp_service_account">>)
                    /\ outcome' = "stopped"
                    /\ pc' = "ended"
                    /\ UNCHANGED << cache, builds, service, stack >>
               ELSE /\ builds' = builds + 1
                    /\ cache' = <<"service", builds + 1>>
                    /\ service' = cache'
                    /\ stack' = << Frame(folder_id, <<>>) >>
                    /\ pc' = "scan"
                    /\ UNCHANGED << ui, outcome >>
    /\ UNCHANGED << drive, secrets, folder_url, folder_id, results, csv, calls, trace >>

(***************************************************************************)
(* list_children: one files().list() request of the innermost activation.  *)
(***************************************************************************)
\* a mutant of IsFolder: no item is taken for a folder, so none is entered
IsFolderNever(item) == FALSE

\* `if mime == "application/vnd.google-apps.folder"`
IsFolder(item) == item.mimeType = FOLDER_MIME

\* the request of the first loop iteration carries pageToken=None
FirstRequest == Top.page_token = NoToken

\* the folder is recorded as listed when its first request is issued
Listed == IF FirstRequest THEN Append(trace, <<"list", Top.folder_id>>) ELSE trace

Called(entry) == Append(IF FirstRequest THEN <<>> ELSE calls, entry)

\* a mutant of PropagateError: the failed request is taken as the last page
SwallowError ==
    /\ stack' = SetTop([Top EXCEPT !.phase = "loop"])
    /\ UNCHANGED << outcome, pc >>

\* .execute() raises and nothing catches: every activation is unwound and
\* run_extraction ends with the exception
PropagateError ==
    /\ stack' = <<>>
    /\ outcome' = "exception"
    /\ pc' = "ended"

ListPage ==
    /\ pc = "scan"
    /\ Top.phase = "list"
    /\ \E resp \in ListResponses(Top.folder_id, Top.page_token) :
         LET all_items == Extend(Top.all_items, resp.files)
             page_token == resp.nextPageToken
         IN  /\ stack' = SetTop([Top EXCEPT
                                   !.all_items = all_items,
                                   !.page_token = page_token,
                                   !.phase = IF LastPage(page_token) THEN "loop" ELSE "list"])
             /\ calls' = Called([sent |-> Top.page_token, ok |-> TRUE,
                                 files |-> resp.files, next |-> page_token])
    /\ trace' = Listed
    /\ UNCHANGED << drive, secrets, cache, builds, pc, folder_url, folder_id,
                    service, secretRead, results, ui, csv, outcome >>

ListFailure ==
    /\ pc = "scan"
    /\ Top.phase = "list"
    /\ calls' = Called([sent |-> Top.page_token, ok |-> FALSE,
                        files |-> <<>>, next |-> NoToken])
    /\ trace' = Listed
    /\ PropagateError
    /\ UNCHANGED << drive, secrets, cache, builds, folder_url, folder_id,
                    service, secretRead, results, ui, csv >>

(***************************************************************************)
(* scan_folder_recursive: one iteration of `for item in items`, and the    *)
(* return of an activation.                                                *)
(***************************************************************************)
LoopItem ==
    /\ pc = "scan"
    /\ Top.phase = "loop"
    /\ Top.i <= Len(Top.all_items)
    /\ LET item == Top.all_items[Top.i]
       IN  /\ IF IsFolder(item)
              THEN stack' = Append(stack, Frame(item.id, NewPath(Top.path, item.name)))
              ELSE stack' = SetTop([Top EXCEPT
                                      !.i = @ + 1,
                                      !.results = IF is_audio_file(item.name)
                                                  THEN Append(@, AudioRow(item, Top.path))
                                                  ELSE @])
           /\ trace' = Append(trace, <<"item", item.id>>)
    /\ calls' = <<>>
    /\ UNCHANGED << drive, secrets, cache, builds, pc, folder_url, folder_id,
                    service, secretRead, results, ui, csv, outcome >>

Return ==
    /\ pc = "scan"
    /\ Top.phase = "loop"
    /\ Top.i > Len(Top.all_items)
    /\ IF Len(stack) = 1
       THEN /\ results' = Top.results
            /\ stack' = <<>>
            /\ pc' = "report"
       ELSE /\ stack' = [SubSeq(stack, 1, Len(stack) - 1) EXCEPT
                           ![Len(stack) - 1].results = @ \o Top.results,
                           ![Len(stack) - 1].i = @ + 1]
            /\ UNCHANGED << results, pc >>
    /\ calls' = <<>>
    /\ UNCHANGED << drive, secrets, cache, builds, folder_url, folder_id,
                    service, secretRead, ui, csv, outcome, trace >>

(***************************************************************************)
(* run_extraction, lines 136-162.                                          *)
(***************************************************************************)
\* a mutant of NoResults: the empty-result check is left out
NoResultsNever(rows) == FALSE

\* `if not results`
NoResults(rows) == rows = <<>>

ReportResults ==
    /\ pc = "report"
    /\ IF NoResults(results)
       THEN /\ ui' = ui \o << <<"success", Len(results)>>, <<"warning">> >>
            /\ csv' = None
       ELSE /\ csv' = <<CSV_HEADER>> \o results
            /\ ui' = ui \o << <<"success", Len(results)>>, <<"download_button", csv'>> >>
    /\ outcome' = "returned"
    /\ pc' = "ended"
    /\ UNCHANGED << drive, secrets, cache, builds, folder_url, folder_id,
                    service, secretRead, stack, results, calls, trace >>

Next ==
    \/ \E url \in MainUrls : TypeUrl(url)
    \/ StartExtraction
    \/ GetDriveService
    \/ ListPage
    \/ ListFailure
    \/ LoopItem
    \/ Return
    \/ ReportResults
    \/ SetSecret

Spec == Init /\ [][Next]_vars

\* the script runs to its end once started; a click is never forced
FairSpec ==
    Spec /\ WF_vars(GetDriveService \/ ListPage \/ ListFailure \/ LoopItem \/ Return \/ ReportResults)

(***************************************************************************)
(* extract_folder_id on its own: folder references assembled from at most  *)
(* MaxPieces fragments are typed and the button pressed.                   *)
(***************************************************************************)
Bare24 == [k \in 1..(MinBareLen - 1) |-> "x"]

Pieces ==
    { LitFolders,
      <<"/","d","r","i","v","e">>,
      LitIdEq,
      LitIdEq \o <<"q">>,
      <<"?">>,
      <<"a","B","-","3","_">>,
      Bare24,
      <<"Z">>,
      <<"\n">> }

RECURSIVE UrlsOf(_)
UrlsOf(k) ==
    IF k = 0 THEN { <<>> }
    ELSE LET shorter == UrlsOf(k - 1)
         IN  shorter \cup { u \o p : u \in shorter, p \in Pieces }

ExtractUrls == UrlsOf(MaxPieces)

InitExtract ==
    /\ drive = [n \in ItemNos |-> [parent |-> 0, folder |-> FALSE, name |-> NameText]]
    /\ folder_url \in ExtractUrls
    /\ secrets = TRUE
    /\ cache = NoService
    /\ builds = 0
    /\ InitRequest

NextExtract == StartExtraction

SpecExtract == InitExtract /\ [][NextExtract]_vars

(***************************************************************************)
(* C3.  The folder ID is the capture of the first of the four patterns      *)
(* that matches, and None when none matches.                               *)
(***************************************************************************)
IsId(r) == r # <<>> /\ \A k \in 1..Len(r) : r[k] \in IdChars

\* lit stands at position i of s and an ID character follows it
Occurs(lit, s, i) ==
    /\ i >= 1
    /\ i + Len(lit) <= Len(s)
    /\ \A k \in 1..Len(lit) : s[i + k - 1] = lit[k]
    /\ s[i + Len(lit)] \in IdChars

PatternMatches(lit, s) == \E i \in 1..Len(s) : Occurs(lit, s, i)

\* r is what lit([a-zA-Z0-9_-]+) captures in s: the whole run of ID
\* characters after the leftmost occurrence of lit that an ID character follows
Captured(lit, s, r) ==
    \E i \in 1..Len(s) :
        /\ Occurs(lit, s, i)
        /\ \A j \in 1..(i - 1) : ~Occurs(lit, s, j)
        /\ IsId(r)
        /\ i + Len(lit) + Len(r) - 1 <= Len(s)
        /\ \A k \in 1..Len(r) : s[i + Len(lit) + k - 1] = r[k]
        /\ \/ i + Len(lit) + Len(r) > Len(s)
           \/ s[i + Len(lit) + Len(r)] \notin IdChars

\* s is, as a whole, a bare ID of at least 25 characters
WholeBareId(s) == IsId(s) /\ Len(s) >= MinBareLen

\* s without its final newline, if it has one
Chomp(s) == IF s # <<>> /\ s[Len(s)] = "\n" THEN SubSeq(s, 1, Len(s) - 1) ELSE s

\* the button has been pressed, so folder_id is the ID found in folder_url
Extracted == pc # "idle"

\* C3 as stated: the bare-ID pattern accepts exactly the strings that are,
\* as a whole, an ID of at least 25 characters
C3_AsStated ==
    Extracted =>
        IF PatternMatches(LitFolders, folder_url)
            THEN Captured(LitFolders, folder_url, folder_id)
        ELSE IF PatternMatches(LitDriveFolders, folder_url)
            THEN Captured(LitDriveFolders, folder_url, folder_id)
        ELSE IF PatternMatches(LitIdEq, folder_url)
            THEN Captured(LitIdEq, folder_url, folder_id)
        ELSE IF WholeBareId(folder_url)
            THEN folder_id = folder_url
        ELSE folder_id = None

\* C3 (amended): extract_folder_id returns the capture of the first pattern,
\* in the order /folders/<id>, /drive/folders/<id>, id=<id>, bare ID, that
\* matches, and None when none does, where the bare-ID pattern accepts an ID
\* of at least 25 characters that is the whole string or the whole string up
\* to one final newline
C3_FirstPatternWins ==
    Extracted =>
        IF PatternMatches(LitFolders, folder_url)
            THEN Captured(LitFolders, folder_url, folder_id)
        ELSE IF PatternMatches(LitDriveFolders, folder_url)
            THEN Captured(LitDriveFolders, folder_url, folder_id)
        ELSE IF PatternMatches(LitIdEq, folder_url)
            THEN Captured(LitIdEq, folder_url, folder_id)
        ELSE IF WholeBareId(Chomp(folder_url))
            THEN folder_id = Chomp(folder_url)
        ELSE folder_id = None

\* a reference matched by the query-parameter pattern before (to the left of)
\* the folder-path pattern, for which the folder-path capture was returned
C3_Witness ==
    /\ Extracted
    /\ \E i, j \in 1..Len(folder_url) :
         /\ i < j
         /\ Occurs(LitIdEq, folder_url, i)
         /\ Occurs(LitFolders, folder_url, j)
    /\ Captured(LitFolders, folder_url, folder_id)
    /\ ~Captured(LitIdEq, folder_url, folder_id)
    /\ pc = "service"

(***************************************************************************)
(* The Drive content, read off `drive` directly.                           *)
(***************************************************************************)
\* the item whose identifier is fid; -1 when there is none
NoOf(fid) ==
    IF \E n \in 0..MaxItems : IdOf(n) = fid
    THEN CHOOSE n \in 0..MaxItems : IdOf(n) = fid
    ELSE -1

\* item n lies, at any depth, in folder r
RECURSIVE Below(_, _)
Below(n, r) ==
    /\ n \in ItemNos
    /\ \/ drive[n].parent = r
       \/ Below(drive[n].parent, r)

\* the names of the folders between folder r and item n, outermost first
RECURSIVE FoldersBetween(_, _)
FoldersBetween(n, r) ==
    IF drive[n].parent = r THEN <<>>
    ELSE FoldersBetween(drive[n].parent, r) \o << drive[drive[n].parent].name >>

\* sep.join(parts)
RECURSIVE Join(_, _)
Join(parts, sep) ==
    IF parts = <<>> THEN <<>>
    ELSE IF Len(parts) = 1 THEN parts[1]
    ELSE parts[1] \o sep \o Join(Tail(parts), sep)

\* the name ends, case-insensitively, with one of the audio extensions
AudioName(name) ==
    \E ext \in AUDIO_EXTENSIONS :
        /\ Len(ext) <= Len(name)
        /\ \A j \in 1..Len(ext) : LowerChar(name[Len(name) - Len(ext) + j]) = ext[j]

\* the audio files at any depth in folder r
AudioFilesBelow(r) ==
    { n \in ItemNos : Below(n, r) /\ ~drive[n].folder /\ AudioName(drive[n].name) }

\* the walk of the requested folder has returned to run_extraction
WalkReturned == pc = "report"

RootNo == NoOf(folder_id)

(***************************************************************************)
(* C1.                                                                     *)
(***************************************************************************)
\* one row per audio file below the requested folder, and no other row
ExactlyAudioRows ==
    /\ \A n \in AudioFilesBelow(RootNo) :
         Cardinality({ k \in 1..Len(results) : results[k][7] = IdOf(n) }) = 1
    /\ \A k \in 1..Len(results) :
         \E n \in AudioFilesBelow(RootNo) :
            /\ results[k][7] = IdOf(n)
            /\ results[k][1] = drive[n].name

\* the Folder Path of every row is the '/'-join of the folder names between
\* the requested folder and the file
JoinedPaths ==
    \A k \in 1..Len(results) :
        \A n \in ItemNos :
            results[k][7] = IdOf(n) =>
                results[k][2] = Join(FoldersBetween(n, RootNo), <<"/">>)

\* C1: scan_folder_recursive returns exactly one row per audio file (a
\* non-folder item whose name ends, case-insensitively, with an allow-listed
\* extension) reachable from the root and no other row, and the Folder Path
\* of each row is the '/'-join of the names of the folders between the root
\* and the file
C1_RowsAndPaths == WalkReturned => (ExactlyAudioRows /\ JoinedPaths)

\* C1, rows only: holds of the code
C1_ExactlyAudioRows == WalkReturned => ExactlyAudioRows

\* C1, paths where no folder between the root and the file is unnamed: holds
\* of the code
C1_JoinedPathsOfNamedFolders ==
    WalkReturned =>
        \A k \in 1..Len(results) :
            \A n \in ItemNos :
                /\ results[k][7] = IdOf(n)
                /\ \A j \in 1..Len(FoldersBetween(n, RootNo)) :
                       FoldersBetween(n, RootNo)[j] # <<>>
                => results[k][2] = Join(FoldersBetween(n, RootNo), <<"/">>)

(***************************************************************************)
(* C2.                                                                     *)
(***************************************************************************)
RECURSIVE ConcatFiles(_)
ConcatFiles(cs) ==
    IF cs = <<>> THEN <<>> ELSE Head(cs).files \o ConcatFiles(Tail(cs))

\* a list_children call is in progress or has just returned its list
Listing == pc = "scan" /\ stack # <<>> /\ calls # <<>>

\* list_children has just returned: the last response carried no token
ListingReturned == Listing /\ Top.phase = "loop"

\* C2: list_children returns the concatenation, in page order, of the pages
\* the API served, every item as often as it was served; the first request
\* carries no token and each later request the token of the previous response
C2_PagesConcatenated ==
    Listing =>
        /\ calls[1].sent = NoToken
        /\ \A k \in 2..Len(calls) : calls[k].sent = calls[k - 1].next
        /\ \A k \in 1..(Len(calls) - 1) : calls[k].next # NoToken
        /\ Top.all_items = ConcatFiles(calls)
        /\ ListingReturned =>
             /\ calls[Len(calls)].next = NoToken
             /\ Top.all_items = Children(Top.folder_id)

\* a listing served over three pages, one item each, has returned
C2_Witness ==
    /\ ListingReturned
    /\ Len(calls) = 3
    /\ \A k \in 1..3 : Len(calls[k].files) = 1
    /\ Len(Top.all_items) = 3

(***************************************************************************)
(* What a request has put on the page, and how it ended.                   *)
(***************************************************************************)
Shows(kind) == \E k \in 1..Len(ui) : ui[k][1] = kind

\* none of the folder-reference patterns matches the typed text
NoPatternMatches ==
    /\ ~PatternMatches(LitFolders, folder_url)
    /\ ~PatternMatches(LitDriveFolders, folder_url)
    /\ ~PatternMatches(LitIdEq, folder_url)
    /\ ~WholeBareId(Chomp(folder_url))

\* this step is a press of the button
Pressed == pc \in {"idle", "ended"} /\ pc' # "idle" /\ vars' # vars

\* run_extraction has run to the end of its report (lines 136-162)
WalkReported ==
    pc = "ended" /\ outcome = "returned" /\ ~InvalidFolderId(folder_id)

\* the last files().list() request of the request failed
RequestFailed == calls # <<>> /\ ~calls[Len(calls)].ok

\* ... and it was not the first request of its list_children call
FailedMidPagination == RequestFailed /\ Len(calls) >= 2

\* the row that the item served as `item` would give
IsAudioItem(item) == item.mimeType # FOLDER_MIME /\ AudioName(item.name)

(***************************************************************************)
(* C4.                                                                     *)
(***************************************************************************)
\* C4: when the walk yields zero rows, run_extraction shows a warning and
\* ends with no CSV written and no download offered; a download is offered
\* if and only if the walk completed with at least one row
C4_WarningOrDownload ==
    /\ (WalkReported /\ results = <<>>) =>
          /\ Shows("warning")
          /\ ~Shows("download_button")
          /\ csv = None
    /\ Shows("download_button") <=> (WalkReported /\ results # <<>>)
    /\ csv # None <=> (WalkReported /\ results # <<>>)

\* a folder holding items, none of them an audio file, was walked to the end
C4_Witness ==
    /\ WalkReported
    /\ results = <<>>
    /\ Len(trace) >= 3
    /\ ui = << <<"success", 0>>, <<"warning">> >>

(***************************************************************************)
(* C5.                                                                     *)
(***************************************************************************)
\* C5: a press of the button with a text that matches none of the patterns
\* shows the error and ends the request at once: the secret is not
\* consulted, no client is built or fetched from the cache, no listing
\* request is issued, nothing else is shown
C5_InvalidReferenceAborts ==
    [][ (Pressed /\ NoPatternMatches) =>
            /\ pc' = "ended"
            /\ outcome' = "returned"
            /\ ui' = << <<"error", "Invalid folder URL / ID">> >>
            /\ ~secretRead'
            /\ service' = NoService
            /\ cache' = cache
            /\ builds' = builds
            /\ calls' = <<>>
            /\ trace' = <<>>
            /\ stack' = <<>>
            /\ csv' = None ]_vars

\* an unrecognised reference was refused while a client sits in the cache
C5_Witness ==
    /\ pc = "ended"
    /\ NoPatternMatches
    /\ folder_id = None
    /\ ui = << <<"error", "Invalid folder URL / ID">> >>
    /\ cache # NoService
    /\ service = NoService

(***************************************************************************)
(* C6.                                                                     *)
(***************************************************************************)
\* C6: get_drive_service, called with the secret absent and nothing cached,
\* shows the missing-secret error and halts the script: no client is built
\* or cached, no listing request is issued, no download is offered
C6_MissingSecretHalts ==
    [][ (pc = "service" /\ ~secrets /\ cache = NoService /\ vars' # vars) =>
            /\ pc' = "ended"
            /\ outcome' = "stopped"
            /\ ui' = << <<"error", "Missing Streamlit secret: gcp_service_account">> >>
            /\ cache' = NoService
            /\ builds' = builds
            /\ service' = NoService
            /\ stack' = <<>>
            /\ calls' = <<>>
            /\ trace' = <<>>
            /\ csv' = None ]_vars

\* a request was halted for want of the secret
C6_Witness ==
    /\ pc = "ended"
    /\ outcome = "stopped"
    /\ ~secrets
    /\ secretRead
    /\ cache = NoService
    /\ builds = 0
    /\ Shows("error")

(***************************************************************************)
(* C7.                                                                     *)
(***************************************************************************)
\* C7: a failed listing request, at any point of the walk, ends the request
\* in failure: no further request is issued, nothing is shown (no success
\* message, no warning, no download), no CSV is written and the rows
\* collected so far are dropped
C7_ListingErrorPropagates ==
    RequestFailed =>
        /\ pc = "ended"
        /\ outcome = "exception"
        /\ stack = <<>>
        /\ ui = <<>>
        /\ csv = None
        /\ results = <<>>

\* the first request for a descendant folder failed after an audio file of
\* the root had been examined
C7_Witness ==
    /\ RequestFailed
    /\ Len(calls) = 1
    /\ outcome = "exception"
    /\ \E k \in 1..Len(trace) :
          /\ trace[k][1] = "item"
          /\ NoOf(trace[k][2]) \in AudioFilesBelow(RootNo)
    /\ Cardinality({ k \in 1..Len(trace) : trace[k][1] = "list" }) >= 2

(***************************************************************************)
(* C8.                                                                     *)
(***************************************************************************)
\* C8: the client is built at most once in a process: the first call of
\* get_drive_service that finds the secret builds and caches it, and from
\* then on the cached handle is neither replaced nor rebuilt, the secret is
\* not consulted again, and every request works with that handle
C8_ClientBuiltOnce ==
    /\ [](builds <= 1)
    /\ [](service # NoService => service = cache)
    /\ [][ (pc = "service" /\ secrets /\ cache = NoService /\ vars' # vars) =>
              (builds' = 1 /\ cache' # NoService /\ service' = cache') ]_vars
    /\ [][ cache # NoService =>
              (cache' = cache /\ builds' = builds /\ (secretRead' => secretRead)) ]_vars

\* a later request walks with the cached client although the secret is gone
C8_Witness ==
    /\ pc = "scan"
    /\ builds = 1
    /\ service = cache
    /\ service # NoService
    /\ ~secretRead
    /\ ~secrets

(***************************************************************************)
(* C9.                                                                     *)
(***************************************************************************)
\* C9 as stated: after a failure on a later page the listing and the
\* extraction go on and complete with what was fetched
C9_PartialResultsKept ==
    FailedMidPagination => outcome # "exception"

\* C9 (amended): a failure on a later page of a listing ends the request in
\* failure like any other listing error: the items of the pages already
\* fetched are dropped with everything else, nothing is shown and no CSV is
\* written
C9_MidPaginationErrorAborts ==
    FailedMidPagination =>
        /\ pc = "ended"
        /\ outcome = "exception"
        /\ stack = <<>>
        /\ results = <<>>
        /\ csv = None
        /\ ~Shows("success")
        /\ ~Shows("download_button")

\* the second request of a listing failed after the first page had served
\* an audio file
C9_Witness ==
    /\ FailedMidPagination
    /\ calls[1].ok
    /\ \E k \in 1..Len(calls[1].files) : IsAudioItem(calls[1].files[k])
    /\ pc = "ended"

(***************************************************************************)
(* C10.                                                                    *)
(***************************************************************************)
\* the depth-first walk of folder r: r is listed, then its children are
\* examined in the order served, the whole walk of a child folder coming
\* before the next child
RECURSIVE WalkOf(_), WalkFrom(_, _)
WalkOf(r) == << <<"list", IdOf(r)>> >> \o WalkFrom(r, 1)
WalkFrom(r, n) ==
    IF n > MaxItems THEN <<>>
    ELSE (IF drive[n].parent = r
          THEN << <<"item", IdOf(n)>> >> \o (IF drive[n].folder THEN WalkOf(n) ELSE <<>>)
          ELSE <<>>)
         \o WalkFrom(r, n + 1)

IsPrefix(a, b) == Len(a) <= Len(b) /\ SubSeq(b, 1, Len(a)) = a

\* how often the folder with identifier fid was listed
TimesListed(fid) ==
    Cardinality({ k \in 1..Len(trace) : trace[k] = <<"list", fid>> })

\* the steps the script has still to take, at most, for item n of a folder:
\* its loop iteration and, for a folder, the walk of it
RECURSIVE ItemSteps(_), FolderSteps(_), SumItemSteps(_, _)
ItemSteps(n) == 1 + (IF n \in ItemNos /\ drive[n].folder THEN FolderSteps(n) ELSE 0)

\* ... for a folder not yet listed: a request per child and one more, the
\* loop over its children, and its return
FolderSteps(n) ==
    LET nos == ChildNosFrom(n, 1)
    IN  (Len(nos) + 1) + SumItemSteps(nos, 1) + 1

SumItemSteps(nos, from) ==
    IF from > Len(nos) THEN 0
    ELSE ItemSteps(nos[from]) + SumItemSteps(nos, from + 1)

\* ... for activation k of the stack: the requests and the loop ahead of a
\* listing in progress, or the rest of the loop (without the item whose walk
\* the activations above it are doing), and its return
FrameSteps(k) ==
    LET f == stack[k]
        nos == ChildNosFrom(NoOf(f.folder_id), 1)
        served == [j \in 1..Len(f.all_items) |-> NoOf(f.all_items[j].id)]
    IN  IF f.phase = "list"
        THEN (Len(nos) - Len(f.all_items) + 1) + SumItemSteps(nos, 1) + 1
        ELSE SumItemSteps(served, IF k = Len(stack) THEN f.i ELSE f.i + 1) + 1

RECURSIVE StepsFrom(_)
StepsFrom(k) == IF k > Len(stack) THEN 0 ELSE FrameSteps(k) + StepsFrom(k + 1)

\* a bound on the number of steps the walk in progress has left
StepsLeft == StepsFrom(1)

\* C10: on a finite folder tree whose listings end, the walk terminates: it
\* is never stuck, and each of its steps lowers a bound on the steps left
\* that is a positive number; when it returns it has listed the root and
\* every folder below it exactly once and no other folder; and it goes
\* depth-first, one folder at a time
C10_DepthFirstWalkTerminates ==
    /\ [](WalkReturned =>
            /\ trace = WalkOf(RootNo)
            /\ \A n \in 0..MaxItems :
                  TimesListed(IdOf(n)) =
                     IF n = RootNo \/ (Below(n, RootNo) /\ drive[n].folder) THEN 1 ELSE 0)
    /\ [](pc = "scan" =>
            /\ IsPrefix(trace, WalkOf(RootNo))
            /\ StepsLeft >= 1
            /\ ENABLED (ListPage \/ LoopItem \/ Return))
    /\ [][ (pc = "scan" /\ pc' = "scan") => StepsLeft' < StepsLeft ]_vars

\* under weak fairness of the script's steps, every walk comes to its end:
\* it returns, or a request fails
WalkEventuallyEnds ==
    (pc = "scan") ~> (WalkReturned \/ outcome = "exception")

\* the walk of a root that holds a folder has returned; the top folder and
\* a folder beside the root were left alone
C10_Witness ==
    /\ WalkReturned
    /\ RootNo = 1
    /\ \E n \in ItemNos :
          Below(n, RootNo) /\ drive[n].folder /\ TimesListed(IdOf(n)) = 1
    /\ \E m \in ItemNos :
          /\ m # RootNo
          /\ drive[m].folder
          /\ ~Below(m, RootNo)
          /\ TimesListed(IdOf(m)) = 0
    /\ TimesListed(IdOf(0)) = 0

====
